---- MODULE Spec2Model ----
(***************************************************************************)
(* Model of nanobind's Eigen type casters (include/nanobind/eigen.h):      *)
(* the plain-object caster, the expression-template caster, the            *)
(* Eigen::Map caster and the Eigen::Ref caster, together with the part of  *)
(* the tensor caster, the capsule and the reference counting of the host   *)
(* interpreter that their contracts depend on.                             *)
(*                                                                         *)
(* Three specifications share the module:                                  *)
(*   SpecResolve  the return-value-policy resolution of from_cpp;          *)
(*   Spec         one outbound conversion followed by the foreign side's   *)
(*                life cycle of the emitted array (references taken and    *)
(*                dropped, writes, a round trip back through from_python); *)
(*   SpecInbound  inbound conversions of arbitrary foreign arrays.         *)
(***************************************************************************)
EXTENDS Integers, Sequences, FiniteSets, TLC

VARIABLES
    call,       \* SpecResolve: the last policy resolution (inputs, result)
    nat,        \* the native value handed to from_cpp
    mem,        \* storage blocks: address -> [st, data]
    cap,        \* the capsule created by a move conversion
    arr,        \* the foreign array object
    parent,     \* the bound method's self object (cleanup->self())
    released,   \* how many times the capsule's deleter has run
    outcome,    \* how the outbound conversion ended
    cv,         \* the plain-object caster's native `value`
    ret,        \* what the last from_python returned
    view,       \* the view operator Map() / operator Ref() produced
    hist        \* history: what was requested, what the last call saw

vars == <<call, nat, mem, cap, arr, parent, released, outcome, cv, ret, view,
          hist>>

(***************************************************************************)
(* Program constants                                                       *)
(***************************************************************************)
\* Eigen::Dynamic
Dynamic == -1

\* The byte count of eigen.h:113, `1024 / sizeof(Scalar)`
MoveThresholdBytes == 1024

\* nb::rv_policy
RvPolicy == {"automatic", "automatic_reference", "take_ownership", "copy",
             "move", "reference", "reference_internal", "none"}

(***************************************************************************)
(* Bounds of the model                                                     *)
(***************************************************************************)
\* largest element count drawn for a policy resolution
MaxCount == 260

(***************************************************************************)
(* Return value policy resolution (eigen.h:77-83 and eigen.h:101-119)      *)
(***************************************************************************)
\* a faulty from_cpp(T &&): the requested policy is forwarded untouched
from_cpp_rvalue_policy_forward(policy) == policy

\* from_cpp(T &&v, ...): automatic and automatic_reference become move
from_cpp_rvalue_policy(policy) ==
    IF policy = "automatic" \/ policy = "automatic_reference"
    THEN "move" ELSE policy

\* the switch of from_cpp(const T &v, ...): SizeAtCompileTime is T's static
\* size (Dynamic when unknown), size is v.size(), sizeofScalar is
\* sizeof(Scalar); `\div` is C++'s unsigned integer division
resolve_policy(policy, SizeAtCompileTime, size, sizeofScalar) ==
    CASE policy = "automatic" -> "copy"
      [] policy = "automatic_reference" -> "reference"
      [] policy = "move" ->
            IF SizeAtCompileTime # Dynamic
               \/ size < (MoveThresholdBytes \div sizeofScalar)
            THEN "copy" ELSE "move"
      [] OTHER -> policy

\* the policy handed to the tensor caster (eigen.h:128-129)
tensor_rv_policy(policy) == IF policy = "move" THEN "reference" ELSE policy

(***************************************************************************)
(* SpecResolve: one call of from_cpp, with every requested policy, passing *)
(* mode, static size and run-time size                                     *)
(***************************************************************************)
\* sizeof(Scalar) of the element types drawn: int32/float, double,
\* long double on i386 (12) and long double on x86-64 (16)
ScalarSizes == {4, 8, 12, 16}

NoCall == [requested |-> "none", rvalue |-> FALSE, fixed |-> FALSE,
           size |-> 0, sizeofScalar |-> 4, effective |-> "unset",
           emitted |-> "unset"]

Resolved(requested, rvalue, fixed, size, sizeofScalar, effective) ==
    [requested |-> requested, rvalue |-> rvalue, fixed |-> fixed,
     size |-> size, sizeofScalar |-> sizeofScalar, effective |-> effective,
     emitted |-> tensor_rv_policy(effective)]

IdleLife ==
    /\ nat = [kind |-> "none"]
    /\ mem = <<>>
    /\ cap = [st |-> "none"]
    /\ arr = [st |-> "none"]
    /\ parent = [refs |-> 0]
    /\ released = 0
    /\ outcome = "pending"
    /\ cv = [rows |-> 0, cols |-> 0, data |-> <<>>]
    /\ ret = "none"
    /\ view = [st |-> "none"]
    /\ hist = [st |-> "none"]

InitResolve == call = NoCall /\ IdleLife

\* from_cpp(const T &, policy, cleanup)
ResolveConstRef ==
    \E policy \in RvPolicy, fixed \in BOOLEAN, size \in 0..MaxCount,
       s \in ScalarSizes :
        /\ call = NoCall
        /\ call' = Resolved(policy, FALSE, fixed, size, s,
                     resolve_policy(policy,
                                    IF fixed THEN size ELSE Dynamic, size, s))
        /\ UNCHANGED <<view, nat, mem, cap, arr, parent, released, outcome,
                       cv, ret, hist>>

\* from_cpp(T &&, policy, cleanup)
ResolveRvalue ==
    \E policy \in RvPolicy, fixed \in BOOLEAN, size \in 0..MaxCount,
       s \in ScalarSizes :
        /\ call = NoCall
        /\ call' = Resolved(policy, TRUE, fixed, size, s,
                     resolve_policy(from_cpp_rvalue_policy(policy),
                                    IF fixed THEN size ELSE Dynamic, size, s))
        /\ UNCHANGED <<view, nat, mem, cap, arr, parent, released, outcome,
                       cv, ret, hist>>

NextResolve == ResolveConstRef \/ ResolveRvalue

SpecResolve == InitResolve /\ [][NextResolve]_vars

(***************************************************************************)
(* Claims about the policy resolution                                      *)
(***************************************************************************)
\* C1: a requested Move resolves to Copy for a fixed-size type, and for a
\* dynamically sized type to Copy exactly when size * sizeof(Scalar) < 1024
\* and to Move otherwise, for every element size.
C1_MoveResolvesByByteSize ==
    call.requested = "move" =>
        /\ call.fixed => call.effective = "copy"
        /\ ~call.fixed =>
              (call.effective = "copy"
                 <=> call.size * call.sizeofScalar < MoveThresholdBytes)
        /\ call.effective \in {"copy", "move"}

\* C2 (as stated): Automatic resolves to Copy and AutomaticReference to
\* Reference whether the value is passed by const reference or as an rvalue.
C2_AutomaticIgnoresPassingMode ==
    /\ call.requested = "automatic" => call.effective = "copy"
    /\ call.requested = "automatic_reference" => call.effective = "reference"

\* C2 (amended): by const reference Automatic resolves to Copy and
\* AutomaticReference to Reference; as an rvalue both resolve to Copy when
\* the type is fixed-size or holds fewer than 1024 div sizeof(Scalar)
\* elements and to Move otherwise.
C2_AutomaticByPassingMode ==
    /\ (call.requested = "automatic" /\ ~call.rvalue)
          => call.effective = "copy"
    /\ (call.requested = "automatic_reference" /\ ~call.rvalue)
          => call.effective = "reference"
    /\ (call.requested \in {"automatic", "automatic_reference"} /\ call.rvalue)
          => call.effective =
                IF call.fixed
                   \/ call.size < (MoveThresholdBytes \div call.sizeofScalar)
                THEN "copy" ELSE "move"

\* an rvalue of a large dynamic type converted with Automatic: Move
C2_Witness ==
    /\ call.requested = "automatic" /\ call.rvalue /\ ~call.fixed
    /\ call.size * call.sizeofScalar >= MoveThresholdBytes
    /\ call.effective = "move"


(***************************************************************************)
(* Native types and values                                                 *)
(***************************************************************************)
\* bounds of the native types and shapes drawn
FixedRows == 3
FixedCols == 2
MaxExtent == 8
NumAddr == 5
MaxRefs == 2

\* the value the tests write through a view (test_eigen.cpp:86)
WriteMark == 123

\* An Eigen plain type by the static facts the casters read.  Eigen requires
\* a row vector type to be row-major and a column vector type column-major.
Types ==
    {T \in [RowsAtCompileTime : {Dynamic, 1, FixedRows},
            ColsAtCompileTime : {Dynamic, 1, FixedCols},
            IsRowMajor : BOOLEAN, sizeofScalar : {4, 16}] :
        /\ ~(T.RowsAtCompileTime = 1 /\ T.ColsAtCompileTime = 1)
        /\ T.RowsAtCompileTime = 1 => T.IsRowMajor
        /\ T.ColsAtCompileTime = 1 => ~T.IsRowMajor}

\* T::NumDimensions: 1 for compile-time vectors, 2 otherwise
NumDimensions(T) ==
    IF T.RowsAtCompileTime = 1 \/ T.ColsAtCompileTime = 1 THEN 1 ELSE 2

\* T::SizeAtCompileTime
SizeAtCompileTime(T) ==
    IF T.RowsAtCompileTime = Dynamic \/ T.ColsAtCompileTime = Dynamic
    THEN Dynamic ELSE T.RowsAtCompileTime * T.ColsAtCompileTime

IsVector(T) == NumDimensions(T) = 1

\* run-time extents a value of type T can have in the model
RowChoices(T) ==
    IF T.RowsAtCompileTime # Dynamic THEN {T.RowsAtCompileTime}
    ELSE IF IsVector(T) THEN {3, MaxExtent * MaxExtent} ELSE {2, MaxExtent}
ColChoices(T) ==
    IF T.ColsAtCompileTime # Dynamic THEN {T.ColsAtCompileTime}
    ELSE IF IsVector(T) THEN {3, MaxExtent * MaxExtent} ELSE {2, MaxExtent}

\* v.size(), v.innerStride(), v.outerStride(), v.rowStride(), v.colStride()
\* of a plain object or of a Map with the default stride
Size(v) == v.rows * v.cols
innerStride(v) == 1
outerStride(v) == IF v.T.IsRowMajor THEN v.cols ELSE v.rows
rowStride(v) == IF v.T.IsRowMajor THEN outerStride(v) ELSE innerStride(v)
colStride(v) == IF v.T.IsRowMajor THEN innerStride(v) ELSE outerStride(v)

\* position (1-based) of coefficient (i, j) in a value's linear storage
Offset(v, i, j) == 1 + i * rowStride(v) + j * colStride(v)

\* the coefficients the model stores: M(i, j) = i * cols + j, as the
\* 0..15 example of a 4x4 matrix
CoeffM(v, i, j) == i * v.cols + j
\* the second operand of an expression
CoeffB(v, i, j) == 2 * i + j + 1

\* linear storage of a value whose coefficient (i, j) is f[i, j]
RowOf(v, k) == IF v.T.IsRowMajor THEN (k - 1) \div v.cols ELSE (k - 1) % v.rows
ColOf(v, k) == IF v.T.IsRowMajor THEN (k - 1) % v.cols ELSE (k - 1) \div v.rows
StorageM(v) == [k \in 1..Size(v) |-> CoeffM(v, RowOf(v, k), ColOf(v, k))]
StorageB(v) == [k \in 1..Size(v) |-> CoeffB(v, RowOf(v, k), ColOf(v, k))]
StorageSum(v) ==
    [k \in 1..Size(v) |-> CoeffM(v, RowOf(v, k), ColOf(v, k))
                           + CoeffB(v, RowOf(v, k), ColOf(v, k))]

(***************************************************************************)
(* Storage                                                                 *)
(***************************************************************************)
Addr == 1..NumAddr
FreeBlock == [st |-> "free", data |-> <<>>]
EmptyMem == [a \in Addr |-> FreeBlock]

\* what a destroyed block may hold when it is read afterwards: the old
\* contents or anything else
Scribbled(data) == [k \in DOMAIN data |-> 0 - 1]

FreshAddr(m) ==
    CHOOSE a \in DOMAIN m :
        m[a].st = "free" /\ \A b \in DOMAIN m : b < a => m[b].st # "free"
Alloc(m, a, data) == [m EXCEPT ![a] = [st |-> "live", data |-> data]]
Free(m, a, keep) ==
    [m EXCEPT ![a] = [st |-> "dead",
                      data |-> IF keep THEN @.data ELSE Scribbled(@.data)]]
Live(m, a) == a \in DOMAIN m /\ m[a].st = "live"


(***************************************************************************)
(* Host objects: capsule, parent object, array object.  A world is the     *)
(* record [mem, cap, arr, parent, released, outcome] the conversions act   *)
(* on.                                                                     *)
(***************************************************************************)
NoCapsule == [st |-> "none", refs |-> 0, ptr |-> 0]
NoArray == [st |-> "none", refs |-> 0, ptr |-> 0, ndim |-> 0, shape |-> <<>>,
            strides |-> <<>>, owner |-> "none", owndata |-> FALSE,
            policy |-> "none", dtype |-> "scalar"]

\* the deleter installed by from_cpp: [](void *p) noexcept { delete (T *) p; }
capsule_deleter(w, p, keep) ==
    [w EXCEPT !.released = @ + 1, !.mem = Free(@, p, keep)]

\* capsule(temp, deleter): a new capsule object holding one reference
capsule(temp) == [st |-> "live", refs |-> 1, ptr |-> temp]

\* Py_DECREF of the capsule; its destructor runs the deleter
CapsuleDecRef(w, keep) ==
    IF w.cap.refs > 1
    THEN [w EXCEPT !.cap.refs = @ - 1]
    ELSE capsule_deleter([w EXCEPT !.cap.refs = 0, !.cap.st = "destroyed"],
                         w.cap.ptr, keep)

\* Py_DECREF of the parent object; reclaiming it destroys its member storage
ParentDecRefW(w, keep) ==
    IF w.parent.refs > 1
    THEN [w EXCEPT !.parent.refs = @ - 1]
    ELSE [w EXCEPT !.parent.refs = 0,
                   !.mem = IF w.parent.ptr # 0 THEN Free(@, w.parent.ptr, keep)
                           ELSE @]

OwnerIncRef(w, owner) ==
    CASE owner = "capsule" -> [w EXCEPT !.cap.refs = @ + 1]
      [] owner = "parent" -> [w EXCEPT !.parent.refs = @ + 1]
      [] OTHER -> w

OwnerDecRef(w, owner, keep) ==
    CASE owner = "capsule" -> CapsuleDecRef(w, keep)
      [] owner = "parent" -> ParentDecRefW(w, keep)
      [] OTHER -> w

\* the array object's last reference is dropped
ArrayDestroy(w, keep) ==
    LET w1 == [w EXCEPT !.arr.st = "gone", !.arr.refs = 0,
                        !.mem = IF w.arr.owndata THEN Free(@, w.arr.ptr, keep)
                                ELSE @]
    IN OwnerDecRef(w1, w.arr.owner, keep)

(***************************************************************************)
(* The tensor caster's outbound side (nanobind/tensor.h)                   *)
(***************************************************************************)
\* Tensor(ptr, ndim, shape, owner, strides)
Tensor(ptr, ndim, shape, owner, strides) ==
    [ptr |-> ptr, ndim |-> ndim, shape |-> shape, owner |-> owner,
     strides |-> strides]

\* TensorCaster::from_cpp(tensor, policy, cleanup): builds the array object
\* (one new reference), or returns a null handle when ok is FALSE.
\*   copy                the array owns a fresh copy of the elements
\*   reference           the array points at tensor.ptr and keeps tensor.owner
\*   reference_internal  as reference; with no owner given, the owner is
\*                       cleanup->self(), the parent object
TensorCaster_from_cpp(w, t, policy, ok) ==
    IF ~ok THEN w
    ELSE IF policy = "copy"
    THEN LET a == FreshAddr(w.mem)
         IN [w EXCEPT !.mem = Alloc(@, a, w.mem[t.ptr].data),
                      !.arr = [st |-> "live", refs |-> 1, ptr |-> a,
                               ndim |-> t.ndim, shape |-> t.shape,
                               strides |-> t.strides, owner |-> "none",
                               owndata |-> TRUE, policy |-> policy,
                               dtype |-> "scalar"]]
    ELSE LET owner == IF policy = "reference_internal" /\ t.owner = "none"
                      THEN "parent" ELSE t.owner
         IN [OwnerIncRef(w, owner) EXCEPT
                !.arr = [st |-> "live", refs |-> 1, ptr |-> t.ptr,
                         ndim |-> t.ndim, shape |-> t.shape,
                         strides |-> t.strides, owner |-> owner,
                         owndata |-> FALSE, policy |-> policy,
                         dtype |-> "scalar"]]

(***************************************************************************)
(* Outbound conversions (eigen.h)                                          *)
(***************************************************************************)
\* shape[] and strides[] as from_cpp fills them (eigen.h:86-97, 173-184)
DeriveShape(v) ==
    IF NumDimensions(v.T) = 1 THEN <<Size(v)>> ELSE <<v.rows, v.cols>>

DeriveStrides(v) ==
    IF NumDimensions(v.T) = 1 THEN <<innerStride(v)>>
    ELSE <<rowStride(v), colStride(v)>>

\* a faulty Tensor(...): built with an empty owner handle
plain_tensor_without_owner(ptr, v, owner) ==
    Tensor(ptr, NumDimensions(v.T), DeriveShape(v), "none", DeriveStrides(v))

\* Tensor(ptr, T::NumDimensions, shape, owner, strides) of eigen.h:132
plain_tensor(ptr, v, owner) ==
    Tensor(ptr, NumDimensions(v.T), DeriveShape(v), owner, DeriveStrides(v))

\* type_caster<plain T>::from_cpp(const T &v, policy, cleanup) noexcept.
\* allocOk: whether `new T` succeeds (a bad_alloc leaving the noexcept
\* function ends the process); bridgeOk: whether the tensor caster builds
\* the array; keep: what destroyed storage holds afterwards.
from_cpp(w, v, requested, allocOk, bridgeOk, keep) ==
    LET policy == resolve_policy(requested, SizeAtCompileTime(v.T), Size(v),
                                 v.T.sizeofScalar)
    IN  IF policy = "move" /\ ~allocOk
        THEN [w EXCEPT !.outcome = "terminated"]
        ELSE
          LET temp == FreshAddr(w.mem)
              \* T *temp = new T(std::move(v)): v is const, so this copies
              w1 == IF policy = "move"
                    THEN [w EXCEPT !.mem = Alloc(@, temp, w.mem[v.ptr].data),
                                   !.cap = capsule(temp)]
                    ELSE w
              owner == IF policy = "move" THEN "capsule" ELSE "none"
              ptr == IF policy = "move" THEN temp ELSE v.ptr
              t == plain_tensor(ptr, v, owner)
              w2 == OwnerIncRef(w1, t.owner)
              w3 == TensorCaster_from_cpp(w2, t, tensor_rv_policy(policy),
                                          bridgeOk)
              \* the Tensor temporary, then the local `owner`, are destroyed
              w4 == OwnerDecRef(w3, t.owner, keep)
              w5 == OwnerDecRef(w4, owner, keep)
          IN [w5 EXCEPT !.outcome = IF w5.arr.st = "live" THEN "ok"
                                    ELSE "null"]

\* type_caster<plain T>::from_cpp(T &&v, policy, cleanup) on a value
\* returned by value: v is a temporary of the full expression that converts
\* it and is destroyed when that expression ends, before the caller goes on
rvalue_from_cpp(w, v, requested, allocOk, bridgeOk, keep) ==
    LET w1 == from_cpp(w, v, from_cpp_rvalue_policy(requested), allocOk,
                       bridgeOk, keep)
    IN  IF w1.outcome = "terminated" THEN w1
        ELSE [w1 EXCEPT !.mem = Free(@, v.ptr, keep)]

\* Array<Scalar, RowsAtCompileTime, ColsAtCompileTime> of the expression
\* caster; Eigen's default storage order is column-major except for row
\* vectors
ArrayType(T) ==
    [T EXCEPT !.IsRowMajor = (T.RowsAtCompileTime = 1)]

\* type_caster<expression>::from_cpp: the expression converts to a temporary
\* Array bound to from_cpp(Array &&); the temporary dies with the call
xpr_from_cpp(w, x, requested, allocOk, bridgeOk, keep) ==
    LET a == FreshAddr(w.mem)
        v == [T |-> ArrayType(x.T), rows |-> x.rows, cols |-> x.cols,
              ptr |-> a]
        w1 == [w EXCEPT !.mem = Alloc(@, a, StorageSum(v))]
    IN  rvalue_from_cpp(w1, v, requested, allocOk, bridgeOk, keep)

\* a faulty Map caster: a requested copy is honoured
map_emitted_policy_requested(requested) ==
    IF requested = "copy" THEN "copy" ELSE "reference"

\* the policy the Map caster hands on: always rv_policy::reference
map_emitted_policy(requested) == "reference"

\* type_caster<Eigen::Map>::from_cpp(const Map &v, rv_policy, cleanup)
map_from_cpp(w, v, requested, bridgeOk) ==
    LET t == Tensor(v.ptr, NumDimensions(v.T), DeriveShape(v), "none",
                    DeriveStrides(v))
        w1 == TensorCaster_from_cpp(w, t, map_emitted_policy(requested),
                                    bridgeOk)
    IN [w1 EXCEPT !.outcome = IF w1.arr.st = "live" THEN "ok" ELSE "null"]


(***************************************************************************)
(* The tensor caster's inbound side (nanobind/tensor.h) and the            *)
(* plain-object caster's from_python                                       *)
(***************************************************************************)
\* shape<...> of tensor_for_eigen_t<T>; Dynamic stands for nb::any
ShapeReq(T) ==
    IF NumDimensions(T) = 1 THEN <<SizeAtCompileTime(T)>>
    ELSE <<T.RowsAtCompileTime, T.ColsAtCompileTime>>

\* c_contig / f_contig of tensor_for_eigen_t<T>
OrderReq(T) == IF T.IsRowMajor \/ NumDimensions(T) = 1 THEN "C" ELSE "F"

\* element strides of a packed array of the given shape and order
ContigStrides(shape, order) ==
    IF Len(shape) = 1 THEN <<1>>
    ELSE IF order = "C" THEN <<shape[2], 1>> ELSE <<1, shape[1]>>

\* whether the tensor caster accepts foreign array a for tensor_for_eigen_t<T>
Accepts(T, a) ==
    /\ a.st = "live"
    /\ a.dtype = "scalar"
    /\ a.ndim = Len(ShapeReq(T))
    /\ \A k \in 1..a.ndim :
          ShapeReq(T)[k] = Dynamic \/ ShapeReq(T)[k] = a.shape[k]
    /\ a.strides = ContigStrides(a.shape, OrderReq(T))

InvalidTensor == [valid |-> FALSE, ptr |-> 0, ndim |-> 0, shape |-> <<>>,
                  strides |-> <<>>]

\* TensorCaster::from_python(src, flags, cleanup): caster.value on success
TensorCaster_from_python(T, a) ==
    IF Accepts(T, a)
    THEN [valid |-> TRUE, ptr |-> a.ptr, ndim |-> a.ndim, shape |-> a.shape,
          strides |-> a.strides]
    ELSE InvalidTensor

\* value.resize(n) / value.resize(r, c) followed by memcpy of the first
\* n elements at tensor.data()
Resized1(T, n, data) ==
    [rows |-> IF T.RowsAtCompileTime = 1 THEN 1 ELSE n,
     cols |-> IF T.RowsAtCompileTime = 1 THEN n ELSE 1,
     data |-> SubSeq(data, 1, n)]
Resized2(r, c, data) ==
    [rows |-> r, cols |-> c, data |-> SubSeq(data, 1, r * c)]

\* a faulty from_python: value is resized before the tensor caster's
\* verdict is read
from_python_resize_first(value, T, src, m) ==
    LET tensor == TensorCaster_from_python(T, src)
        n == IF src.ndim = 0 THEN 0 ELSE src.shape[1]
    IN  [ret |-> IF tensor.valid THEN "true" ELSE "false",
         value |-> IF tensor.valid /\ NumDimensions(T) = 2
                   THEN Resized2(src.shape[1], src.shape[2], m[src.ptr].data)
                   ELSE Resized1(T, n, IF tensor.valid THEN m[src.ptr].data
                                       ELSE [k \in 1..n |-> 0])]

\* type_caster<plain T>::from_python(src, flags, cleanup) noexcept: the
\* caster's value afterwards and the result returned
from_python(value, T, src, m) ==
    LET tensor == TensorCaster_from_python(T, src)
    IN  IF ~tensor.valid
        THEN [ret |-> "false", value |-> value]
        ELSE IF NumDimensions(T) = 1
        THEN [ret |-> "true",
              value |-> Resized1(T, tensor.shape[1], m[tensor.ptr].data)]
        ELSE [ret |-> "true",
              value |-> Resized2(tensor.shape[1], tensor.shape[2],
                                 m[tensor.ptr].data)]

(***************************************************************************)
(* Spec: one outbound conversion and the life of what it emitted           *)
(***************************************************************************)
\* the policies the binding layer requests in this specification
LifePolicies == {"automatic", "automatic_reference", "copy", "move",
                 "reference", "reference_internal"}

\* native values: storage says who owns the elements: a static object
\* ("static"), a member of the parent object ("member") or a temporary
\* returned by value ("temp")
NativeValues(kind, storages) ==
    UNION {{[kind |-> kind, T |-> T, rows |-> r, cols |-> c, ptr |-> 1,
             storage |-> s] :
               r \in RowChoices(T), c \in ColChoices(T), s \in storages} :
           T \in Types}

World == [mem |-> mem, cap |-> cap, arr |-> arr, parent |-> parent,
          released |-> released, outcome |-> outcome]

Install(w) ==
    /\ mem' = w.mem
    /\ cap' = w.cap
    /\ arr' = w.arr
    /\ parent' = w.parent
    /\ released' = w.released
    /\ outcome' = w.outcome

Init ==
    /\ call = NoCall
    /\ nat \in NativeValues("plain", {"static", "member", "temp"})
               \cup NativeValues("map", {"static", "member"})
               \cup NativeValues("xpr", {"static"})
    /\ mem = IF nat.kind = "xpr"
             THEN Alloc(Alloc(EmptyMem, 1, StorageM(nat)), 2, StorageB(nat))
             ELSE Alloc(EmptyMem, 1, StorageM(nat))
    /\ cap = NoCapsule
    /\ arr = NoArray
    /\ parent = [refs |-> 1, held |-> TRUE,
                 ptr |-> IF nat.storage = "member" THEN 1 ELSE 0]
    /\ released = 0
    /\ outcome = "pending"
    /\ cv = [rows |-> 0, cols |-> 0, data |-> <<>>]
    /\ ret = "none"
    /\ view = [st |-> "none"]
    /\ hist = [requested |-> "none", allocFailed |-> FALSE,
               written |-> FALSE]

Converted(requested) ==
    hist' = [hist EXCEPT !.requested = requested,
                         !.allocFailed = (outcome' = "terminated")]

\* a plain object is returned: by const reference, or by value (rvalue);
\* a value returned by value is a temporary of the converting expression
ConvertPlain ==
    /\ outcome = "pending" /\ nat.kind = "plain"
    /\ \E requested \in LifePolicies, allocOk, bridgeOk, keep \in BOOLEAN :
          /\ Install(IF nat.storage = "temp"
                     THEN rvalue_from_cpp(World, nat, requested, allocOk,
                                          bridgeOk, keep)
                     ELSE from_cpp(World, nat, requested, allocOk, bridgeOk,
                                   keep))
          /\ Converted(requested)
    /\ UNCHANGED <<view, call, nat, cv, ret>>

\* a lazy expression A + B is returned
ConvertXpr ==
    /\ outcome = "pending" /\ nat.kind = "xpr"
    /\ \E requested \in LifePolicies, allocOk, bridgeOk, keep \in BOOLEAN :
          /\ Install(xpr_from_cpp(World, nat, requested, allocOk, bridgeOk,
                                  keep))
          /\ Converted(requested)
    /\ UNCHANGED <<view, call, nat, cv, ret>>

\* an Eigen::Map over existing storage is returned
ConvertMap ==
    /\ outcome = "pending" /\ nat.kind = "map"
    /\ \E requested \in RvPolicy, bridgeOk \in BOOLEAN :
          /\ Install(map_from_cpp(World, nat, requested, bridgeOk))
          /\ Converted(requested)
    /\ UNCHANGED <<view, call, nat, cv, ret>>

Returned == outcome \in {"ok", "null"}

\* the foreign side takes another reference to the array
ArrIncRef ==
    /\ Returned /\ arr.st = "live" /\ arr.refs < MaxRefs
    /\ arr' = [arr EXCEPT !.refs = @ + 1]
    /\ UNCHANGED <<view, call, nat, mem, cap, parent, released, outcome, cv,
                   ret, hist>>

\* the foreign side drops a reference to the array
ArrDecRef ==
    /\ Returned /\ arr.st = "live"
    /\ \E keep \in BOOLEAN :
          Install(IF arr.refs > 1 THEN [World EXCEPT !.arr.refs = @ - 1]
                  ELSE ArrayDestroy(World, keep))
    /\ UNCHANGED <<view, call, nat, cv, ret, hist>>

\* the foreign side drops its own reference to the parent object
ParentDecRef ==
    /\ Returned /\ parent.held
    /\ \E keep \in BOOLEAN :
          Install(ParentDecRefW([World EXCEPT !.parent.held = FALSE], keep))
    /\ UNCHANGED <<view, call, nat, cv, ret, hist>>

\* position of the array's last element in its storage
LastOffset(a) ==
    IF a.ndim = 1 THEN 1 + (a.shape[1] - 1) * a.strides[1]
    ELSE 1 + (a.shape[1] - 1) * a.strides[1] + (a.shape[2] - 1) * a.strides[2]

\* the foreign side writes the array's last element
ForeignWrite ==
    /\ outcome = "ok" /\ arr.st = "live" /\ Live(mem, arr.ptr)
    /\ ~hist.written
    /\ mem' = [mem EXCEPT ![arr.ptr].data[LastOffset(arr)] = WriteMark]
    /\ hist' = [hist EXCEPT !.written = TRUE]
    /\ UNCHANGED <<view, call, nat, cap, arr, parent, released, outcome, cv,
                   ret>>

\* the emitted array is converted back into the same native type
RoundTrip ==
    /\ outcome = "ok" /\ arr.st = "live" /\ nat.kind = "plain"
    /\ ret = "none"
    /\ LET r == from_python(cv, nat.T, arr, mem)
       IN  cv' = r.value /\ ret' = r.ret
    /\ UNCHANGED <<view, call, nat, mem, cap, arr, parent, released,
                   outcome, hist>>

Next ==
    \/ ConvertPlain \/ ConvertXpr \/ ConvertMap
    \/ ArrIncRef \/ ArrDecRef \/ ParentDecRef
    \/ ForeignWrite \/ RoundTrip

Spec == Init /\ [][Next]_vars


(***************************************************************************)
(* Claims about outbound conversions                                       *)
(***************************************************************************)
\* the element of array a that is coefficient (i, j) of a native value: a
\* 1-axis array is indexed by the coefficient's position in the vector
ArrCoeff(a, i, j) ==
    IF a.ndim = 1 THEN mem[a.ptr].data[1 + (i + j) * a.strides[1]]
    ELSE mem[a.ptr].data[1 + i * a.strides[1] + j * a.strides[2]]

Rows(v) == 0..(v.rows - 1)
Cols(v) == 0..(v.cols - 1)

\* C3: the allocation a capsule guards is released exactly once: not while
\* the capsule is referenced (in particular not by from_cpp itself while the
\* emitted array is referenced), once when the last reference to the array
\* is dropped, and once when the tensor caster fails to build the array.
C3_CapsuleReleasedOnce ==
    /\ released <= 1
    /\ cap.st = "none" => released = 0
    /\ cap.st # "none" =>
          /\ released = 1 <=> cap.st = "destroyed"
          /\ cap.st = "live" <=> Live(mem, cap.ptr)
          /\ arr.st = "live" =>
                cap.st = "live" /\ arr.owner = "capsule" /\ arr.ptr = cap.ptr
          /\ (arr.st = "gone" \/ outcome = "null") => released = 1
    /\ (/\ nat.kind = "plain" /\ Returned
        /\ hist.requested = "move"
        /\ SizeAtCompileTime(nat.T) = Dynamic
        /\ Size(nat) * nat.T.sizeofScalar >= MoveThresholdBytes)
          => cap.st # "none"

\* a move conversion whose array has been dropped by the foreign side
C3_Witness ==
    /\ nat.kind = "plain" /\ cap.st = "destroyed" /\ arr.st = "gone"
    /\ released = 1 /\ hist.requested = "automatic"

\* C4: the array emitted for a Map points at the Map's data, has its
\* extents and strides, is emitted with policy reference and no owner,
\* allocates nothing, and a write through it is seen through the Map.
C4_MapOutboundZeroCopy ==
    (nat.kind = "map" /\ arr.st = "live") =>
        /\ arr.ptr = nat.ptr
        /\ arr.shape = IF IsVector(nat.T) THEN <<nat.rows * nat.cols>>
                       ELSE <<nat.rows, nat.cols>>
        /\ arr.strides = IF IsVector(nat.T) THEN <<1>>
                         ELSE IF nat.T.IsRowMajor THEN <<nat.cols, 1>>
                         ELSE <<1, nat.rows>>
        /\ arr.policy = "reference" /\ arr.owner = "none" /\ ~arr.owndata
        /\ cap.st = "none"
        /\ \A a \in Addr : a # nat.ptr => mem[a].st = "free"
        /\ (hist.written /\ Live(mem, nat.ptr)) =>
              mem[nat.ptr].data[Offset(nat, nat.rows - 1, nat.cols - 1)]
                 = WriteMark

\* a 2-axis Map converted with policy copy requested, written by the
\* foreign side
C4_Witness ==
    /\ nat.kind = "map" /\ arr.st = "live" /\ hist.requested = "copy"
    /\ ~IsVector(nat.T) /\ nat.T.IsRowMajor /\ hist.written
    /\ Live(mem, nat.ptr)

\* C5: for every requested policy the array emitted for an expression A + B
\* is backed by storage distinct from A's and B's that is alive after the
\* call, and its elements are A[i] + B[i].
C5_ExpressionReadable ==
    (nat.kind = "xpr" /\ outcome = "ok" /\ arr.st = "live" /\ ~hist.written)
      =>
        /\ arr.ptr \notin {1, 2}
        /\ Live(mem, arr.ptr)
        /\ \A i \in Rows(nat), j \in Cols(nat) :
              ArrCoeff(arr, i, j) = CoeffM(nat, i, j) + CoeffB(nat, i, j)

\* C6: converting a plain M outbound and the emitted array inbound into the
\* same type succeeds and yields M's extents and coefficients, under every
\* effective policy, as long as the foreign side has not destroyed M.
C6_RoundTrip ==
    (/\ nat.kind = "plain" /\ ret # "none" /\ ~hist.written
     /\ (nat.storage # "temp" => Live(mem, nat.ptr)))
      =>
        /\ ret = "true"
        /\ cv.rows = nat.rows /\ cv.cols = nat.cols
        /\ Len(cv.data) = nat.rows * nat.cols
        /\ \A i \in Rows(nat), j \in Cols(nat) :
              cv.data[Offset([T |-> nat.T, rows |-> cv.rows,
                              cols |-> cv.cols], i, j)] = CoeffM(nat, i, j)

\* C8: when the allocation of a move conversion fails, the conversion raises
\* to its caller, and neither an array nor a capsule exists.
C8_AllocationFailureRaises ==
    hist.allocFailed =>
        /\ outcome = "raised"
        /\ arr.st = "none"
        /\ cap.st = "none"

\* C9: an array emitted with reference_internal for storage of the parent
\* object points at that storage without a capsule, and the parent is not
\* reclaimed while the array is referenced.
C9_ParentKeptAlive ==
    (/\ hist.requested = "reference_internal"
     /\ nat.kind \in {"plain", "map"} /\ nat.storage = "member"
     /\ arr.st = "live")
      =>
        /\ arr.ptr = nat.ptr /\ cap.st = "none"
        /\ parent.refs > 0
        /\ Live(mem, nat.ptr)


(***************************************************************************)
(* Inbound conversion into views (eigen.h:156-213)                         *)
(***************************************************************************)
\* largest extent of the foreign arrays drawn
MaxIn == 3

NoView == [st |-> "none"]

\* Eigen's Map(data, rows, cols): an extent fixed at compile time is taken
\* from the type, the argument given for it is only compared with it by an
\* assertion that is compiled in when checked is TRUE
EigenMap(T, data, rows, cols, checked, axes) ==
    IF checked /\ ((T.RowsAtCompileTime # Dynamic /\ rows # T.RowsAtCompileTime)
                   \/ (T.ColsAtCompileTime # Dynamic
                       /\ cols # T.ColsAtCompileTime))
    THEN [st |-> "aborted", axesRead |-> axes]
    ELSE LET v == [T |-> T, ptr |-> data,
                   rows |-> IF T.RowsAtCompileTime # Dynamic
                            THEN T.RowsAtCompileTime ELSE rows,
                   cols |-> IF T.ColsAtCompileTime # Dynamic
                            THEN T.ColsAtCompileTime ELSE cols]
         IN [st |-> "made", T |-> T, ptr |-> data, rows |-> v.rows,
             cols |-> v.cols, strides |-> DeriveStrides(v),
             axesRead |-> axes, checked |-> checked]

\* t.shape(i): an index at or beyond the tensor's rank reads past the shape
\* array, so the value is whatever lies there (beyond)
shape_at(t, i, beyond) == IF i < t.ndim THEN t.shape[i + 1] ELSE beyond

\* type_caster<Map>::operator Map():
\*     return Map(t.data(), t.shape(0), t.shape(1));
operator_Map(T, t, beyond, checked) ==
    EigenMap(T, t.ptr, shape_at(t, 0, beyond), shape_at(t, 1, beyond),
             checked, {0, 1})

\* type_caster<Ref>::operator Ref(): Ref(caster.operator Map())
operator_Ref(T, t, beyond, checked) == operator_Map(T, t, beyond, checked)

\* type_caster<Map>::from_python and type_caster<Ref>::from_python: the
\* tensor caster's verdict, its value populated on success
map_from_python(value, T, src) ==
    LET tensor == TensorCaster_from_python(T, src)
    IN  [ret |-> IF tensor.valid THEN "true" ELSE "false",
         value |-> IF tensor.valid THEN tensor ELSE value]

(***************************************************************************)
(* SpecInbound: a caster for one native type is offered foreign arrays     *)
(***************************************************************************)
\* the foreign storage: one block large enough for every array drawn
ForeignData == [k \in 1..(2 * MaxIn * MaxIn) |-> k - 1]

ForeignShapes == {<<n>> : n \in 1..MaxIn}
                    \cup {<<r, c>> : r \in 1..MaxIn, c \in 1..MaxIn}

\* packed in C order, packed in Fortran order, or with a gap between elements
ForeignStrides(shape) ==
    {ContigStrides(shape, "C"), ContigStrides(shape, "F"),
     IF Len(shape) = 1 THEN <<2>> ELSE <<2 * shape[2], 2>>}

ForeignArrays ==
    UNION {{[st |-> "live", refs |-> 1, ptr |-> 1, ndim |-> Len(sh),
             shape |-> sh, strides |-> sd, owner |-> "none",
             owndata |-> TRUE, policy |-> "none", dtype |-> dt] :
               sd \in ForeignStrides(sh), dt \in {"scalar", "other"}} :
           sh \in ForeignShapes}

\* the native types of the inbound casters: extents within the arrays drawn
InboundTypes == {T \in Types : T.sizeofScalar = 4}

InitInbound ==
    /\ call = NoCall
    /\ nat \in {[kind |-> k, T |-> T] :
                   k \in {"plain", "map", "ref"}, T \in InboundTypes}
    /\ mem = Alloc(EmptyMem, 1, ForeignData)
    /\ cap = NoCapsule
    /\ arr = NoArray
    /\ parent = [refs |-> 0]
    /\ released = 0
    /\ outcome = "pending"
    /\ cv = IF nat.kind = "plain" THEN [rows |-> 0, cols |-> 0, data |-> <<>>]
            ELSE InvalidTensor
    /\ ret = "none"
    /\ view = NoView
    /\ hist = [before |-> cv, accepted |-> FALSE, written |-> FALSE]

\* type_caster<plain T>::from_python on a foreign array
PlainFromPython ==
    /\ nat.kind = "plain"
    /\ \E src \in ForeignArrays :
          LET r == from_python(cv, nat.T, src, mem)
          IN  /\ arr' = src
              /\ cv' = r.value
              /\ ret' = r.ret
              /\ hist' = [hist EXCEPT !.before = cv,
                                      !.accepted = Accepts(nat.T, src)]
    /\ UNCHANGED <<call, nat, mem, cap, parent, released, outcome, view>>

\* type_caster<Map>::from_python / type_caster<Ref>::from_python
ViewFromPython ==
    /\ nat.kind \in {"map", "ref"} /\ view = NoView
    /\ \E src \in ForeignArrays :
          LET r == map_from_python(cv, nat.T, src)
          IN  /\ arr' = src
              /\ cv' = r.value
              /\ ret' = r.ret
              /\ hist' = [hist EXCEPT !.before = cv,
                                      !.accepted = Accepts(nat.T, src)]
    /\ UNCHANGED <<call, nat, mem, cap, parent, released, outcome, view>>

\* the bound function's Map argument is produced from the caster
CastToMap ==
    /\ nat.kind = "map" /\ ret = "true" /\ view = NoView
    /\ \E beyond \in 0..MaxIn, checked \in BOOLEAN :
          view' = operator_Map(nat.T, cv, beyond, checked)
    /\ UNCHANGED <<call, nat, mem, cap, arr, parent, released, outcome, cv,
                   ret, hist>>

\* the bound function's Ref argument is produced from the caster
CastToRef ==
    /\ nat.kind = "ref" /\ ret = "true" /\ view = NoView
    /\ \E beyond \in 0..MaxIn, checked \in BOOLEAN :
          view' = operator_Ref(nat.T, cv, beyond, checked)
    /\ UNCHANGED <<call, nat, mem, cap, arr, parent, released, outcome, cv,
                   ret, hist>>

\* updateV3i / updateVXi: [](Eigen::Ref<Vector> a) { a[2] = 123; }
\* the coefficient with index 2 is written whatever the view's length; an
\* index outside the view stops the process where Eigen's assertions are
\* compiled in, and is written all the same where they are not
ViewWrite ==
    /\ nat.kind = "ref" /\ view.st = "made" /\ ~hist.written
    /\ view.T.ColsAtCompileTime = 1
    /\ view.T.RowsAtCompileTime \in {Dynamic, FixedRows}
    /\ IF view.checked /\ view.rows * view.cols <= 2
       THEN /\ view' = [st |-> "aborted", axesRead |-> view.axesRead]
            /\ UNCHANGED <<mem, hist>>
       ELSE /\ mem' = [mem EXCEPT ![view.ptr].data[Offset(view, 2, 0)] =
                                      WriteMark]
            /\ hist' = [hist EXCEPT !.written = TRUE]
            /\ UNCHANGED view
    /\ UNCHANGED <<call, nat, cap, arr, parent, released, outcome, cv, ret>>

NextInbound ==
    \/ PlainFromPython \/ ViewFromPython \/ CastToMap \/ CastToRef
    \/ ViewWrite

SpecInbound == InitInbound /\ [][NextInbound]_vars

(***************************************************************************)
(* Claims about inbound conversions                                        *)
(***************************************************************************)
\* C7: an inbound conversion the tensor caster rejects returns false and
\* leaves the converter's value exactly as it was; the value is resized and
\* written only when the tensor caster accepted the foreign object.
C7_RejectionLeavesValue ==
    ret # "none" =>
        /\ ret = "false" <=> ~hist.accepted
        /\ ret = "false" => cv = hist.before
        /\ cv # hist.before => hist.accepted

\* a plain caster that holds a converted value rejects the next object
C7_Witness ==
    /\ nat.kind = "plain" /\ ret = "false" /\ cv.rows > 0 /\ Len(cv.data) > 0
    /\ arr.dtype = "scalar"

\* C10: the view produced after a successful inbound conversion borrows the
\* foreign buffer: same data pointer, the buffer's extent on every axis,
\* the buffer's strides, only extents below the buffer's rank read, nothing
\* allocated, and a write through the view lands in the foreign array.
C10_ViewBorrowsBuffer ==
    view # NoView =>
        /\ view.st = "made"
        /\ view.axesRead \subseteq 0..(arr.ndim - 1)
        /\ view.ptr = arr.ptr
        /\ IF arr.ndim = 1 THEN view.rows * view.cols = arr.shape[1]
           ELSE view.rows = arr.shape[1] /\ view.cols = arr.shape[2]
        /\ view.strides = arr.strides
        /\ \A a \in Addr : a # arr.ptr => mem[a].st = "free"
        /\ (hist.written /\ arr.shape[1] > 2) =>
              mem[arr.ptr].data[1 + 2 * arr.strides[1]] = WriteMark

====
